---- MODULE Spec2Model ----
(***************************************************************************)
(* QtAvahiService (src/qtavahiservice.cpp): the service-registration state *)
(* machine of the avahi zeroconf publisher.  One QtAvahiService object is  *)
(* modelled together with the part of the avahi entry-group API it calls   *)
(* and the events delivered to it (group state callback, refresh timer).   *)
(*                                                                         *)
(* Every handler runs to completion on the object's event loop, so each    *)
(* handler is one action.  The handlers are operators on a "world" record  *)
(*   [service, d_ptr, avahi, log, ret, outcome, timerStops]                *)
(* so that the nested calls (timer -> resetService -> registerService ->   *)
(* handleCollision -> registerService ...) are composed as in the code.    *)
(***************************************************************************)
EXTENDS Integers, Sequences, FiniteSets, TLC

VARIABLES service, d_ptr, avahi, last, collided, withdrawn, everRegistered

vars == <<service, d_ptr, avahi, last, collided, withdrawn, everRegistered>>

(***************************************************************************)
(* Bounds.                                                                 *)
(***************************************************************************)
\* Largest numeric suffix of a service name ("printer #3") the model follows.
MaxSuffix == 3
\* Width of a host address in bits.
AddressBits == 4

(***************************************************************************)
(* Values.                                                                 *)
(***************************************************************************)
\* A service name is <<base, n>>: the string base when n = 1, "base #n" otherwise.
NoName == <<"", 1>>

\* avahi_alternative_service_name: "x" -> "x #2", "x #n" -> "x #(n+1)".
AlternativeName(name) == <<name[1], name[2] + 1>>

\* Host addresses are AddressBits-bit numbers; 0 is QHostAddress("0.0.0.0").
AnyAddress == 0
AVAHI_IF_UNSPEC == -1

RECURSIVE Pow2(_)
Pow2(n) == IF n = 0 THEN 1 ELSE 2 * Pow2(n - 1)

\* The netmask with the given number of leading one bits.
Netmask(prefix) == Pow2(AddressBits) - Pow2(AddressBits - prefix)

\* Metadata (QHash<QString,QString>) is a set of <<key, value>> pairs.
TxtOffice == {<<"note", "office">>}
TxtLab == {<<"note", "lab">>}
NoTxt == {}

\* The descriptors a caller registers.
Descriptors ==
    { [name |-> <<"printer", 1>>, hostAddress |-> AnyAddress, port |-> 9100,
       serviceType |-> "_ipp._tcp", txtRecords |-> TxtOffice],
      [name |-> <<"printer", 1>>, hostAddress |-> 10, port |-> 631,
       serviceType |-> "_ipp._tcp", txtRecords |-> TxtLab] }

\* QtAvahiServicePrivate::createTxtList: one "key=value" string per pair.
createTxtList(txtRecords) ==
    [allocated |-> TRUE, items |-> {kv[1] \o "=" \o kv[2] : kv \in txtRecords}]

NullList == [allocated |-> FALSE, items |-> {}]

(***************************************************************************)
(* Interface resolution (the foreach loops of registerService and          *)
(* updateTxtRecord).                                                       *)
(***************************************************************************)
\* QNetworkInterface::allInterfaces(): index and (ip, netmask) entries.
AllInterfaces ==
    << [index |-> 2, addressEntries |-> << [ip |-> 9, netmask |-> Netmask(2)] >>],
       [index |-> 3, addressEntries |-> << [ip |-> 11, netmask |-> Netmask(1)] >>] >>

\* QHostAddress::parseSubnet on "ip/netmask": a contiguous netmask gives its
\* prefix length, anything else an invalid subnet (-1).
parseSubnet(ip, netmask) ==
    LET fits == {l \in 0..AddressBits : netmask = Netmask(l)}
    IN  IF fits = {} THEN <<ip, -1>> ELSE <<ip, CHOOSE l \in fits : TRUE>>

\* QHostAddress::isInSubnet(subnet, netmask).
isInSubnet(address, subnet, prefix) ==
    /\ prefix >= 0
    /\ address \div Pow2(AddressBits - prefix) = subnet \div Pow2(AddressBits - prefix)

\* The inner foreach with its break: does any address entry of the interface match.
InterfaceMatches(interface, hostAddress) ==
    \E i \in 1..Len(interface.addressEntries) :
        LET subnet == parseSubnet(interface.addressEntries[i].ip,
                                  interface.addressEntries[i].netmask)
        IN  isInSubnet(hostAddress, subnet[1], subnet[2])

\* The outer foreach is not left by the inner break: every interface is visited
\* and each match overwrites ifIndex.
RECURSIVE ScanInterfaces(_, _, _)
ScanInterfaces(i, hostAddress, ifIndex) ==
    IF i > Len(AllInterfaces) THEN ifIndex
    ELSE ScanInterfaces(i + 1, hostAddress,
                        IF InterfaceMatches(AllInterfaces[i], hostAddress)
                        THEN AllInterfaces[i].index ELSE ifIndex)

\* The interface index the loops compute, for every host address.
InterfaceIndexOf ==
    [hostAddress \in 0..(Pow2(AddressBits) - 1) |->
        IF hostAddress # AnyAddress THEN ScanInterfaces(1, hostAddress, AVAHI_IF_UNSPEC)
        ELSE AVAHI_IF_UNSPEC]

ResolveInterface(hostAddress) == InterfaceIndexOf[hostAddress]

(***************************************************************************)
(* The avahi entry-group API as the service uses it.  Each call takes the  *)
(* discovery-layer state and returns the new state and the error code.     *)
(***************************************************************************)
\* avahi_client_get_state(client) == AVAHI_CLIENT_S_RUNNING
ClientRunning(av) == av.clientRunning

\* avahi_entry_group_is_empty
GroupIsEmpty(av) == av.entries = <<>>

\* avahi_entry_group_add_service_strlst: a name already taken on this host is a
\* collision; any other error is the injected fault.
AddService(av, ifIndex, name, type, port, serviceList) ==
    IF av.fault = "add" THEN [avahi |-> av, err |-> "FAILURE"]
    ELSE IF name \in av.taken THEN [avahi |-> av, err |-> "COLLISION"]
    ELSE [avahi |-> [av EXCEPT !.entries =
                        Append(@, [name |-> name, type |-> type, port |-> port,
                                   ifIndex |-> ifIndex, txt |-> serviceList.items])],
          err |-> "OK"]

\* avahi_entry_group_commit: only an uncommitted (or collided) group that holds
\* entries can be committed.
Commit(av) ==
    IF av.fault = "commit" THEN [avahi |-> av, err |-> "FAILURE"]
    ELSE IF av.groupState \notin {"Uncommitted", "Collision"}
         THEN [avahi |-> av, err |-> "BAD_STATE"]
    ELSE IF av.entries = <<>> THEN [avahi |-> av, err |-> "IS_EMPTY"]
    ELSE [avahi |-> [av EXCEPT !.groupState = "Registering", !.announced = FALSE],
          err |-> "OK"]

\* avahi_entry_group_update_service_txt_strlst: replaces the TXT data of the
\* entry with that interface, name and type.
UpdateServiceTxt(av, ifIndex, name, type, serviceList) ==
    IF av.fault = "update" THEN [avahi |-> av, err |-> "FAILURE"]
    ELSE IF \A i \in 1..Len(av.entries) :
                ~(av.entries[i].name = name /\ av.entries[i].type = type
                  /\ av.entries[i].ifIndex = ifIndex)
         THEN [avahi |-> av, err |-> "NOT_FOUND"]
    ELSE [avahi |-> [av EXCEPT !.entries =
                        [i \in 1..Len(av.entries) |->
                            IF av.entries[i].name = name /\ av.entries[i].type = type
                               /\ av.entries[i].ifIndex = ifIndex
                            THEN [av.entries[i] EXCEPT !.txt = serviceList.items]
                            ELSE av.entries[i]]],
          err |-> "OK"]

\* avahi_entry_group_reset: entries withdrawn, handle kept, nothing left to report.
GroupReset(av) ==
    [av EXCEPT !.entries = <<>>, !.groupState = "Uncommitted", !.announced = TRUE]

LogCall(w, call, name, err) ==
    [w EXCEPT !.log = Append(@, [call |-> call, name |-> name, err |-> err])]

(***************************************************************************)
(* QtAvahiService.                                                         *)
(***************************************************************************)
\* QtAvahiService::isValid
isValid(d) == d.group /\ d.error = "OK"

\* resetService without the timer stop.
resetService_TimerKept(w) ==
    IF ~w.d_ptr.group THEN LogCall(w, "warning", NoName, "NoGroup")
    ELSE [LogCall(w, "reset", NoName, "OK") EXCEPT !.d_ptr.serviceList = NullList,
                                                   !.avahi = GroupReset(w.avahi)]

\* resetService without the group reset.
resetService_NoGroupReset(w) ==
    IF ~w.d_ptr.group THEN LogCall(w, "warning", NoName, "NoGroup")
    ELSE [w EXCEPT !.d_ptr.serviceList = NullList,
                   !.timerStops = @ + (IF w.service.timerActive THEN 1 ELSE 0),
                   !.service.timerActive = FALSE]

\* QtAvahiService::resetService
resetService(w) ==
    IF ~w.d_ptr.group THEN LogCall(w, "warning", NoName, "NoGroup")
    ELSE [LogCall(w, "reset", NoName, "OK") EXCEPT
              !.d_ptr.serviceList = NullList,
              !.avahi = GroupReset(w.avahi),
              !.timerStops = @ + (IF w.service.timerActive THEN 1 ELSE 0),
              !.service.timerActive = FALSE]

RECURSIVE registerService(_, _, _, _, _, _)
RECURSIVE handleCollision(_)

\* registerService, lines 135-151: cache the values, create the group if needed.
cacheValues(w, name, hostAddress, port, serviceType, txtRecords) ==
    [w EXCEPT !.service.m_name = name,
              !.service.m_hostAddress = hostAddress,
              !.service.m_port = port,
              !.service.m_serviceType = serviceType,
              !.service.m_txtRecords = txtRecords,
              !.d_ptr.name = name,
              !.d_ptr.hostAddress = hostAddress,
              !.d_ptr.port = port,
              !.d_ptr.type = serviceType,
              !.d_ptr.txtRecords = txtRecords,
              !.d_ptr.group = TRUE]

\* commitService starting the refresh timer whether or not the commit succeeded.
commitService_TimerAlways(w) ==
    LET c == Commit(w.avahi)
    IN  [LogCall(w, "commit", w.d_ptr.name, c.err) EXCEPT
             !.avahi = c.avahi, !.d_ptr.error = c.err,
             !.service.timerActive = TRUE, !.ret = (c.err = "OK"),
             !.outcome = IF c.err = "OK" THEN "Registered" ELSE "CommitError"]

\* registerService, lines 201-216: commit the group and start the refresh timer.
commitService(w) ==
    LET c == Commit(w.avahi)
    IN  IF c.err # "OK"
        THEN [LogCall(w, "commit", w.d_ptr.name, c.err) EXCEPT
                  !.avahi = c.avahi, !.d_ptr.error = c.err,
                  !.ret = FALSE, !.outcome = "CommitError"]
        ELSE [LogCall(w, "commit", w.d_ptr.name, c.err) EXCEPT
                  !.avahi = c.avahi, !.d_ptr.error = c.err,
                  !.service.timerActive = TRUE, !.ret = TRUE, !.outcome = "Registered"]

\* registerService, lines 155-206: add the service to the empty group and commit.
addService(w, name, hostAddress, port, serviceType, txtRecords) ==
    LET list == createTxtList(txtRecords)
        a    == AddService(w.avahi, ResolveInterface(hostAddress), name, serviceType,
                           port, list)
        w2   == [LogCall(w, "add", name, a.err) EXCEPT
                     !.d_ptr.serviceList = list, !.d_ptr.error = a.err,
                     !.avahi = a.avahi]
    IN  IF a.err # "OK"
        THEN IF a.err = "COLLISION"
             THEN LET w3 == handleCollision(w2)
                  IN  IF ~w3.ret THEN w3 ELSE commitService(w3)
             ELSE [w2 EXCEPT !.ret = FALSE, !.outcome = "AddError"]
        ELSE commitService(w2)

\* registerService, lines 207-210: the group is not empty.
alreadyRegistered(w, name) ==
    [LogCall(w, "reject", name, "AlreadyRegistered") EXCEPT
         !.ret = FALSE, !.outcome = "AlreadyRegistered"]

\* registerService without the check that the group is empty.
registerService_NoEmptyCheck(w, name, hostAddress, port, serviceType, txtRecords) ==
    IF ~ClientRunning(w.avahi) THEN [w EXCEPT !.ret = FALSE, !.outcome = "NotReady"]
    ELSE addService(cacheValues(w, name, hostAddress, port, serviceType, txtRecords),
                    name, hostAddress, port, serviceType, txtRecords)

\* registerService caching the values before it checks the client.
registerService_CacheFirst(w, name, hostAddress, port, serviceType, txtRecords) ==
    LET w1 == cacheValues(w, name, hostAddress, port, serviceType, txtRecords)
    IN  IF ~ClientRunning(w.avahi) THEN [w1 EXCEPT !.ret = FALSE, !.outcome = "NotReady"]
        ELSE IF ~GroupIsEmpty(w1.avahi) THEN alreadyRegistered(w1, name)
        ELSE addService(w1, name, hostAddress, port, serviceType, txtRecords)

\* QtAvahiService::registerService
registerService(w, name, hostAddress, port, serviceType, txtRecords) ==
    IF ~ClientRunning(w.avahi) THEN [w EXCEPT !.ret = FALSE, !.outcome = "NotReady"]
    ELSE LET w1 == cacheValues(w, name, hostAddress, port, serviceType, txtRecords)
         IN  IF ~GroupIsEmpty(w1.avahi) THEN alreadyRegistered(w1, name)
             ELSE addService(w1, name, hostAddress, port, serviceType, txtRecords)

\* QtAvahiService::handleCollision
handleCollision(w) ==
    LET alternativeServiceName == AlternativeName(w.d_ptr.name)
    IN  registerService(resetService(w), alternativeServiceName, w.d_ptr.hostAddress,
                        w.d_ptr.port, w.d_ptr.type, w.d_ptr.txtRecords)

\* updateTxtRecord, lines 246-280: update the TXT record of the entry.
updateServiceTxt(w, txtRecords) ==
    LET list == createTxtList(txtRecords)
        u    == UpdateServiceTxt(w.avahi, ResolveInterface(w.d_ptr.hostAddress),
                                 w.d_ptr.name, w.d_ptr.type, list)
        w1   == [LogCall(w, "update_txt", w.d_ptr.name, u.err) EXCEPT
                     !.service.m_txtRecords = txtRecords,
                     !.d_ptr.serviceList = list,
                     !.d_ptr.error = u.err,
                     !.avahi = u.avahi]
    IN  IF u.err # "OK" THEN [w1 EXCEPT !.ret = FALSE, !.outcome = "UpdateError"]
        ELSE [w1 EXCEPT !.ret = TRUE, !.outcome = "Updated"]

\* updateTxtRecord without the check that the group exists.
updateTxtRecord_NoGroupCheck(w, txtRecords) == updateServiceTxt(w, txtRecords)

\* QtAvahiService::updateTxtRecord
updateTxtRecord(w, txtRecords) ==
    IF ~w.d_ptr.group THEN [w EXCEPT !.ret = FALSE, !.outcome = "NoGroup"]
    ELSE updateServiceTxt(w, txtRecords)

\* onStateChanged without the check against the cached state.
onStateChanged_NoGuard(w, state) ==
    IF state = "Collision" THEN handleCollision([w EXCEPT !.service.m_state = state])
    ELSE [w EXCEPT !.service.m_state = state]

\* QtAvahiService::onStateChanged
onStateChanged(w, state) ==
    IF w.service.m_state = state THEN w
    ELSE IF state = "Collision" THEN handleCollision([w EXCEPT !.service.m_state = state])
    ELSE [w EXCEPT !.service.m_state = state]

\* The timeout handler re-registering without the reset.
reregister_NoReset(w) ==
    registerService(w, w.service.m_name, w.service.m_hostAddress, w.service.m_port,
                    w.service.m_serviceType, w.service.m_txtRecords)

\* The m_reregisterTimer timeout handler installed by the constructor.
reregister(w) ==
    registerService(resetService(w), w.service.m_name, w.service.m_hostAddress,
                    w.service.m_port, w.service.m_serviceType, w.service.m_txtRecords)

(***************************************************************************)
(* State machine.                                                          *)
(*                                                                         *)
(* What the discovery layer answers during one handler (is the client      *)
(* running, which names are held by another publisher on this host, which  *)
(* call fails) is an input of the handler: env.                            *)
(***************************************************************************)
\* Names another publisher on this host may hold.
TakenCandidates == {<<"printer", 1>>, <<"printer", 2>>}

\* The environments of a handler that registers.
RegisterEnvs ==
    [clientRunning : {TRUE}, taken : SUBSET TakenCandidates, fault : {"none"}]
    \cup [clientRunning : {TRUE}, taken : {{}, {<<"printer", 1>>}}, fault : {"add", "commit"}]
    \cup [clientRunning : {FALSE}, taken : {{}}, fault : {"none"}]

\* The environments of a handler that only updates the TXT record.
UpdateEnvs == [clientRunning : {TRUE}, taken : {{}}, fault : {"none", "update"}]

\* The environment of a handler that asks the discovery layer nothing it can refuse.
QuietEnv == [clientRunning |-> TRUE, taken |-> {}, fault |-> "none"]

\* The state after QtAvahiService::QtAvahiService.
Init ==
    /\ service = [m_state |-> "Uncommitted", m_name |-> NoName, m_hostAddress |-> -1,
                  m_port |-> 0, m_serviceType |-> "", m_txtRecords |-> NoTxt,
                  timerActive |-> FALSE]
    /\ d_ptr = [name |-> NoName, hostAddress |-> -1, port |-> 0, type |-> "",
                txtRecords |-> NoTxt, group |-> FALSE, serviceList |-> NullList,
                error |-> "OK"]
    /\ avahi = [groupState |-> "Uncommitted", announced |-> TRUE, entries |-> <<>>]
    /\ last = [op |-> "Init", arg |-> "", ret |-> TRUE, outcome |-> "", log |-> <<>>,
               timerStops |-> 0, clientRunning |-> TRUE, fault |-> "none"]
    /\ collided = {}
    /\ withdrawn = {}
    /\ everRegistered = FALSE

\* The world a handler starts in.
World(env) ==
    [service |-> service, d_ptr |-> d_ptr,
     avahi |-> [groupState |-> avahi.groupState, announced |-> avahi.announced,
                entries |-> avahi.entries, clientRunning |-> env.clientRunning,
                taken |-> env.taken, fault |-> env.fault],
     log |-> <<>>, ret |-> TRUE, outcome |-> "", timerStops |-> 0]

\* Names for which add-service reported a collision during the handler.
CollisionsIn(log) ==
    {log[i].name : i \in {j \in 1..Len(log) : log[j].call = "add" /\ log[j].err = "COLLISION"}}

\* Whether some registerService call of the handler returned true.
RegisteredIn(log) ==
    \E i \in 1..Len(log) : log[i].call = "commit" /\ log[i].err = "OK"

\* The collisions reported so far in the current registration (collided): a reset
\* by the caller ends the registration, a Register call by the caller that reaches
\* add-service begins one.  add-service reports the name it refuses; the callback
\* reports the names the daemon withdrew last (withdrawn).
CollidedAfter(op, arg, log) ==
    IF op = "Reset" THEN {}
    ELSE IF op = "Register" /\ \E i \in 1..Len(log) : log[i].call = "add"
         THEN CollisionsIn(log)
    ELSE IF op = "Callback" /\ arg = "Collision"
         THEN collided \cup withdrawn \cup CollisionsIn(log)
    ELSE collided \cup CollisionsIn(log)

\* The state a handler leaves.
Finish(w, op, arg) ==
    \E r \in {w} :
        /\ service' = r.service
        /\ d_ptr' = r.d_ptr
        /\ avahi' = [groupState |-> r.avahi.groupState, announced |-> r.avahi.announced,
                     entries |-> r.avahi.entries]
        /\ last' = [op |-> op, arg |-> arg, ret |-> r.ret, outcome |-> r.outcome,
                    log |-> r.log, timerStops |-> r.timerStops,
                    clientRunning |-> r.avahi.clientRunning, fault |-> r.avahi.fault]
        /\ collided' = CollidedAfter(op, arg, r.log)
        /\ withdrawn' = IF r.avahi.groupState = "Collision" /\ ~r.avahi.announced
                        THEN withdrawn ELSE {}
        /\ everRegistered' = (everRegistered \/ RegisteredIn(r.log))

\* The caller registers a descriptor.
Register(desc, env) ==
    Finish(registerService(World(env), desc.name, desc.hostAddress, desc.port,
                           desc.serviceType, desc.txtRecords),
           "Register", "")

\* The caller resets the service.
ResetService ==
    Finish(resetService(World(QuietEnv)), "Reset", "")

\* The caller updates the TXT record.
UpdateTxtRecord(txtRecords, env) ==
    Finish(updateTxtRecord(World(env), txtRecords), "UpdateTxt", "")

\* m_reregisterTimer (single shot) times out.
Timeout(env) ==
    /\ service.timerActive
    /\ Finish(reregister([World(env) EXCEPT !.service.timerActive = FALSE]),
              "Timeout", "")

\* The group callback reports the group's new state.
Callback(env) ==
    /\ ~avahi.announced
    /\ avahi.groupState = "Collision" => d_ptr.name[2] < MaxSuffix
    /\ avahi.groupState # "Collision" => env = QuietEnv
    /\ Finish(onStateChanged([World(env) EXCEPT !.avahi.announced = TRUE],
                             avahi.groupState),
              "Callback", avahi.groupState)

\* The group callback reports once more the state it reported last, which is the
\* one cached in m_state.
CallbackDuplicate ==
    /\ service.m_state # "Uncommitted"
    /\ service.m_state = "Collision" => d_ptr.name[2] < MaxSuffix
    /\ Finish(onStateChanged(World(QuietEnv), service.m_state),
              "CallbackDuplicate", service.m_state)

\* What a step of the daemon leaves in last.
DaemonStep(state) ==
    [op |-> "Daemon", arg |-> state, ret |-> TRUE, outcome |-> "", log |-> <<>>,
     timerStops |-> 0, clientRunning |-> TRUE, fault |-> "none"]

\* The daemon finishes probing / announcing.
DaemonEstablished ==
    /\ avahi.announced
    /\ avahi.groupState = "Registering"
    /\ avahi' = [avahi EXCEPT !.groupState = "Established", !.announced = FALSE]
    /\ last' = DaemonStep("Established")
    /\ UNCHANGED <<service, d_ptr, collided, withdrawn, everRegistered>>

\* The daemon detects a name collision or fails: the entries are withdrawn.
DaemonWithdraws(state) ==
    /\ avahi.announced
    /\ avahi.groupState \in {"Registering", "Established"}
    /\ state = "Collision" =>
          /\ d_ptr.name[2] < MaxSuffix
          /\ \A i \in 1..Len(avahi.entries) : avahi.entries[i].name[2] < MaxSuffix
    /\ avahi' = [avahi EXCEPT !.groupState = state, !.announced = FALSE,
                              !.entries = <<>>]
    /\ last' = DaemonStep(state)
    /\ withdrawn' = IF state = "Collision"
                    THEN {avahi.entries[i].name : i \in 1..Len(avahi.entries)} ELSE {}
    /\ UNCHANGED <<service, d_ptr, collided, everRegistered>>

Next ==
    \/ \E desc \in Descriptors, env \in RegisterEnvs : Register(desc, env)
    \/ ResetService
    \/ \E txtRecords \in {TxtOffice, TxtLab}, env \in UpdateEnvs :
          UpdateTxtRecord(txtRecords, env)
    \/ \E env \in RegisterEnvs : Timeout(env)
    \/ \E env \in RegisterEnvs : Callback(env)
    \/ CallbackDuplicate
    \/ DaemonEstablished
    \/ \E state \in {"Collision", "Failure"} : DaemonWithdraws(state)

Spec == Init /\ [][Next]_vars

(***************************************************************************)
(* Properties.                                                             *)
(***************************************************************************)
\* The calls of a handler that change the group at the discovery layer.
GroupCalls(log) ==
    {i \in 1..Len(log) : log[i].call \in {"add", "commit", "reset", "update_txt"}}

\* C1: Register on a freshly constructed registration, with the client running
\* and no call failing at the discovery layer for a reason other than a name
\* collision, returns true.  (The claim goes on to say that the state then
\* becomes Established; this first half is what the code already breaks.)
C1_FreshRegisterReturnsTrue ==
    [][(last'.op = "Register" /\ ~d_ptr.group /\ last'.clientRunning
        /\ last'.fault = "none") => last'.ret = TRUE]_vars

\* C2: a Register call on a group that is not empty returns false
\* (AlreadyRegistered when the client is running), issues no add-service, commit
\* or reset, and leaves the group and its committed entry as they were.
C2_RegisterOnNonEmptyGroup ==
    [][(last'.op = "Register" /\ avahi.entries # <<>>) =>
          /\ last'.ret = FALSE
          /\ last'.clientRunning => last'.outcome = "AlreadyRegistered"
          /\ GroupCalls(last'.log) = {}
          /\ avahi' = avahi
          /\ service'.timerActive = service.timerActive]_vars

\* C2 witness: a second Register was refused while the first one's entry is
\* committed.
C2_Witness ==
    /\ last.op = "Register"
    /\ last.outcome = "AlreadyRegistered"
    /\ Len(avahi.entries) = 1
    /\ avahi.groupState \in {"Registering", "Established"}

\* C3: the name of an Established entry is never a name for which a collision
\* was reported earlier in the same registration.
C3_EstablishedNameNeverCollided ==
    avahi.groupState = "Established" =>
        \A i \in 1..Len(avahi.entries) : avahi.entries[i].name \notin collided

C5_RegisterNotReadyChangesNothing ==
    [][(last'.op = "Register" /\ ~last'.clientRunning) =>
          /\ last'.ret = FALSE
          /\ last'.log = <<>>
          /\ service' = service
          /\ d_ptr' = d_ptr
          /\ avahi' = avahi]_vars

\* C5 witness: Register was refused for a stopped client on a registration that
\* holds a committed entry and an armed timer.
C5_Witness ==
    /\ last.op = "Register"
    /\ ~last.clientRunning
    /\ ~last.ret
    /\ d_ptr.group
    /\ service.timerActive
    /\ Len(avahi.entries) = 1

\* C6: after a Register call that returned false, isValid() is false and the
\* call has committed no entry.
C6_FailedRegisterInvalidAndUncommitted ==
    (last.op = "Register" /\ ~last.ret) =>
        /\ ~isValid(d_ptr)
        /\ ~RegisteredIn(last.log)

\* C7 as claimed: UpdateTxtRecord before any Register has returned true returns
\* false and leaves the stored metadata unchanged.
C7_UpdateBeforeRegisterFails ==
    [][(last'.op = "UpdateTxt" /\ ~everRegistered) =>
          /\ last'.ret = FALSE
          /\ service'.m_txtRecords = service.m_txtRecords
          /\ d_ptr'.txtRecords = d_ptr.txtRecords]_vars

\* C7 as amended: UpdateTxtRecord called while no group handle exists (no
\* Register call has got past the client check yet) returns false, calls nothing
\* and leaves the stored metadata, and everything else, unchanged.
C7_UpdateWithoutGroupFails ==
    [][(last'.op = "UpdateTxt" /\ ~d_ptr.group) =>
          /\ last'.ret = FALSE
          /\ last'.log = <<>>
          /\ service' = service
          /\ d_ptr' = d_ptr
          /\ avahi' = avahi]_vars

\* C7 witness: UpdateTxtRecord was refused on a registration without a group.
C7_Witness ==
    /\ last.op = "UpdateTxt"
    /\ ~last.ret
    /\ last.outcome = "NoGroup"
    /\ ~d_ptr.group
    /\ service.m_txtRecords = NoTxt

\* C8: ResetService leaves the group empty with the handle kept, no metadata
\* record held and the timer not armed; a second ResetService right after the
\* first changes nothing, records no error, and does not stop the timer again.
C8_ResetIdempotent ==
    [][last'.op = "Reset" =>
          /\ d_ptr'.group = d_ptr.group
          /\ d_ptr'.error = d_ptr.error
          /\ d_ptr.group =>
                /\ avahi'.entries = <<>>
                /\ avahi'.groupState = "Uncommitted"
                /\ ~d_ptr'.serviceList.allocated
                /\ ~service'.timerActive
                /\ last'.timerStops = (IF service.timerActive THEN 1 ELSE 0)
          /\ last.op = "Reset" =>
                /\ service' = service
                /\ d_ptr' = d_ptr
                /\ avahi' = avahi
                /\ last'.timerStops = 0
                /\ last.timerStops + last'.timerStops <= 1]_vars

\* C8 witness: two ResetService calls in a row, the first of which stopped the
\* armed timer.
C8_Witness ==
    /\ last.op = "Reset"
    /\ last.timerStops = 0
    /\ d_ptr.group
    /\ d_ptr.error = "OK"
    /\ avahi.entries = <<>>
    /\ ~service.timerActive
    /\ last.log = <<[call |-> "reset", name |-> NoName, err |-> "OK"]>>
    /\ service.m_state = "Established"

\* C9: delivering to onStateChanged the state that is already cached changes
\* nothing and calls nothing; a Collision delivered a second time starts no
\* second collision retry.
C9_SameStateIsNoOp ==
    [][(last'.op \in {"Callback", "CallbackDuplicate"} /\ last'.arg = service.m_state) =>
          /\ service' = service
          /\ d_ptr' = d_ptr
          /\ avahi'.entries = avahi.entries
          /\ avahi'.groupState = avahi.groupState
          /\ last'.log = <<>>]_vars

\* C9 witness: Collision was delivered a second time.
C9_Witness ==
    /\ last.op = "CallbackDuplicate"
    /\ last.arg = "Collision"
    /\ service.m_state = "Collision"

\* C10: a Register that follows a ResetService, with the client running, never
\* fails with AlreadyRegistered; the same holds for the register that follows
\* the reset inside the refresh and the collision retry.
C10_RegisterAfterResetNotRefused ==
    [][/\ (last.op = "Reset" /\ last'.op = "Register") =>
             last'.outcome # "AlreadyRegistered"
       /\ \A i \in 1..(Len(last'.log) - 1) :
             last'.log[i].call = "reset" => last'.log[i + 1].call # "reject"]_vars

\* C10 witness: a registration was reset and registered again with another
\* descriptor after it had been Established.
C10_Witness ==
    /\ last.op = "Register"
    /\ last.ret
    /\ service.m_state = "Established"
    /\ avahi.groupState = "Registering"
    /\ service.m_port = 631
    /\ Len(avahi.entries) = 1

\* The names add-service accepted during a handler.
AcceptedIn(log) ==
    {log[i].name : i \in {j \in 1..Len(log) : log[j].call = "add" /\ log[j].err = "OK"}}

\* C11: when add-service reports a name collision for the name Register was
\* called with and the discovery layer accepts an alternative name, the Register
\* call returns true with the alternative name added and committed, isValid()
\* true and the refresh timer armed.
C11_CollisionRetrySucceeds ==
    [][(/\ last'.op = "Register"
        /\ last'.fault = "none"
        /\ Len(last'.log) >= 1
        /\ last'.log[1].call = "add"
        /\ last'.log[1].err = "COLLISION"
        /\ AcceptedIn(last'.log) # {}) =>
          /\ last'.ret = TRUE
          /\ isValid(d_ptr')
          /\ service'.timerActive
          /\ avahi'.groupState = "Registering"
          /\ Len(avahi'.entries) = 1
          /\ avahi'.entries[1].name \in AcceptedIn(last'.log)]_vars

\* Whether the group is committed (and not reset since) right before call i of
\* a handler that found the group in the given state.
CommittedBefore(log, i, groupState) ==
    LET resets == {j \in 1..(i - 1) : log[j].call = "reset"}
        from   == IF resets = {} THEN 1
                  ELSE CHOOSE j \in resets : \A k \in resets : k <= j
    IN  \/ resets = {} /\ groupState # "Uncommitted"
        \/ \E j \in from..(i - 1) : log[j].call = "commit" /\ log[j].err = "OK"

\* C12: commit is never requested on a group that has been committed and not
\* reset since.
C12_CommitOncePerReset ==
    [][\A i \in 1..Len(last'.log) :
          last'.log[i].call = "commit" =>
              ~CommittedBefore(last'.log, i, avahi.groupState)]_vars

\* C13 as claimed: if the refresh timer is armed then the cached registration
\* state is Established.
C13_TimerOnlyInEstablished ==
    service.timerActive => service.m_state = "Established"

\* C13 as amended: if the refresh timer is armed then the group exists and a
\* commit has been accepted since its last reset; the timer is started by the
\* success path of registerService, whatever the cached state is.
C13_TimerArmedOnlyWhenCommitted ==
    service.timerActive =>
        /\ d_ptr.group
        /\ avahi.groupState # "Uncommitted"

\* C13 witness: the timer is armed while the cached state is Failure.
C13_Witness ==
    /\ service.timerActive
    /\ service.m_state = "Failure"
    /\ avahi.groupState = "Failure"

\* QtAvahiService::txtRecords, the metadata getter.
txtRecords(d) == d.txtRecords

\* C14: after UpdateTxtRecord(m) has returned true, m (which line 246 has put in
\* m_txtRecords) is the stored metadata: the getter returns it, and it is what
\* the entry advertises.
C14_UpdatedMetadataIsStored ==
    (last.op = "UpdateTxt" /\ last.ret) =>
        /\ txtRecords(d_ptr) = service.m_txtRecords
        /\ \E i \in 1..Len(avahi.entries) :
              avahi.entries[i].txt = createTxtList(txtRecords(d_ptr)).items

\* The entry a refresh would ask add-service for: the descriptor cached in m_*.
RefreshEntry(sv) ==
    [name |-> sv.m_name, type |-> sv.m_serviceType, port |-> sv.m_port,
     ifIndex |-> ResolveInterface(sv.m_hostAddress),
     txt |-> createTxtList(sv.m_txtRecords).items]

\* C15: whenever the refresh timer is armed, the descriptor cached for the
\* refresh equals the descriptor of the entry committed in the group, so that a
\* refresh does not change what is advertised.
C15_RefreshDescriptorMatchesEntry ==
    service.timerActive =>
        \A i \in 1..Len(avahi.entries) : avahi.entries[i] = RefreshEntry(service)

\* The operations the caller invokes.
CallerOps == {"Register", "Reset", "UpdateTxt"}

\* C16: once Failure has been delivered to onStateChanged, the service itself
\* issues no reset, add-service, commit or update to the discovery layer until
\* the caller invokes Register, ResetService or UpdateTxtRecord.  (After the
\* delivery of Failure the only steps that are not the caller's are a repeated
\* delivery of Failure and the timeout of the refresh timer.)
C16_NoAutomaticRetryOnFailure ==
    [][(/\ last.op \in {"Callback", "CallbackDuplicate"}
        /\ last.arg = "Failure"
        /\ last'.op \notin CallerOps) => GroupCalls(last'.log) = {}]_vars

\* QtAvahiService::state
state(sv) == sv.m_state

\* C17: if state() reports Established, and the discovery layer has no state
\* change left to report, then the group holds a committed entry that is live
\* at the discovery layer.
C17_EstablishedMeansLiveEntry ==
    (state(service) = "Established" /\ avahi.announced) =>
        /\ avahi.groupState = "Established"
        /\ avahi.entries # <<>>

\* The calls before which createTxtList builds a record into d_ptr->serviceList.
BuildingCalls == {"add", "update_txt"}

\* Whether d_ptr->serviceList holds an unreleased record right before call i of
\* a handler that started with held: resetService releases it, registerService
\* and updateTxtRecord build one before add-service and update-txt.
HeldBefore(log, i, held) ==
    LET resets == {j \in 1..(i - 1) : log[j].call = "reset"}
        from   == IF resets = {} THEN 1
                  ELSE CHOOSE j \in resets : \A k \in resets : k <= j
    IN  \/ resets = {} /\ held
        \/ \E j \in from..(i - 1) : log[j].call \in BuildingCalls

\* C18: no metadata record is built over one that is still held (at most one
\* is allocated and none is lost unreleased), and a handler in which
\* add-service, commit or update-txt failed leaves no record held.
C18_MetadataRecordReleased ==
    [][/\ \A i \in 1..Len(last'.log) :
             last'.log[i].call \in BuildingCalls =>
                 ~HeldBefore(last'.log, i, d_ptr.serviceList.allocated)
       /\ last'.outcome \in {"AddError", "CommitError", "UpdateError"} =>
             ~d_ptr'.serviceList.allocated]_vars

\* The interface index the claim describes: that of the first interface, in
\* iteration order, whose subnet contains the address; unspecified for the
\* wildcard address and when no interface matches.
FirstMatchIndex(hostAddress) ==
    LET matching == {i \in 1..Len(AllInterfaces) :
                        InterfaceMatches(AllInterfaces[i], hostAddress)}
    IN  IF hostAddress = AnyAddress \/ matching = {} THEN AVAHI_IF_UNSPEC
        ELSE AllInterfaces[CHOOSE i \in matching : \A k \in matching : i <= k].index

\* C19: the interface index handed to add-service and update-txt is that of the
\* first interface in iteration order whose subnet contains the bind address
\* (d_ptr->hostAddress when the call is made), unspecified for the wildcard or
\* when no interface matches.
C19_FirstMatchingInterfaceWins ==
    [][(\E i \in 1..Len(last'.log) :
            last'.log[i].call \in BuildingCalls /\ last'.log[i].err = "OK") =>
          /\ ResolveInterface(d_ptr'.hostAddress) = FirstMatchIndex(d_ptr'.hostAddress)
          /\ \A i \in 1..Len(avahi'.entries) :
                avahi'.entries[i].ifIndex = FirstMatchIndex(d_ptr'.hostAddress)]_vars

====
